---------------------------- MODULE Spec2Model ----------------------------
(***************************************************************************)
(* Towel YT Downloader (src/tt.py): the YTDlpGUI window, its Download      *)
(* button, the start_download callback that runs on the Tk event loop and  *)
(* the download_video worker threads it starts.                            *)
(*                                                                         *)
(* A text (Python str) is a sequence of atoms.  An atom is one character   *)
(* of user or process data, or a literal fragment of the source kept whole *)
(* ("Please enter a valid URL.").  Concatenation is \o, and str.strip()    *)
(* removes the leading and trailing whitespace atoms.                      *)
(*                                                                         *)
(* A callback of the event loop runs to its end before the next event is   *)
(* delivered, so start_download is one step.  A worker thread is cut into  *)
(* the steps between which the UI thread or another worker can run: the    *)
(* building of the command, the Popen call, each iteration of the read     *)
(* loop, the wait, the except handler and the finally clause.  A widget    *)
(* call made by a worker is carried out by the interpreter of the UI       *)
(* thread, one call at a time.  Closing the window is not modelled.        *)
(***************************************************************************)
EXTENDS Integers, Sequences, FiniteSets, TLC

(***************************************************************************)
(* Bounds of the model.                                                    *)
(***************************************************************************)
MaxClicks == 2      \* clicks / direct calls of start_download in one run
MaxLines  == 2      \* output lines one external process emits

(***************************************************************************)
(* Values the environment supplies.                                        *)
(***************************************************************************)
\* what the user can type into the URL entry
UrlInputs == { <<>>, <<" ">>, <<" ", "u", " ">> }
\* the lines yt-dlp can print (each ends with its newline)
LineValues == { <<"a", "\n">>, <<" ", "b", "\n">> }
\* exit codes of the external process (negative: killed by a signal)
ExitCodes == { 0, 1, -9 }
\* str(e) of what Popen can raise
SpawnErrors == { <<"[Errno 2] No such file or directory: 'yt-dlp'">> }
\* str(e) of what iterating process.stdout can raise (text=True decoding)
StreamErrors == { <<"'utf-8' codec can't decode byte">> }
\* what filedialog.askdirectory() can return ("" when the dialog is cancelled,
\* which leaves the folder as it is)
FolderChoices == { <<>>, <<"d">> }
\* the values of the format combobox
FormatValues == { <<"best">>, <<"worst">>, <<"bestvideo">>, <<"bestaudio">>,
                  <<"mp4">>, <<"webm">> }
\* field contents the command builder is exercised with
BuilderUrls == { <<>>, <<" ">>, <<"u">>, <<" ", "u">>, <<"u", " ", "v">>,
                 <<"-", "f">>, <<"v", "\n">> }
BuilderFolders == { <<>>, <<" ">>, <<"d">>, <<" ", "d", " ">>, <<"d", " ", "e">>,
                    <<"u">> }

(***************************************************************************)
(* Python built-ins used by the code.                                      *)
(***************************************************************************)
Whitespace == { " ", "\t", "\n", "\r" }

RECURSIVE lstrip(_)
lstrip(s) == IF s # <<>> /\ Head(s) \in Whitespace THEN lstrip(Tail(s)) ELSE s

RECURSIVE rstrip(_)
rstrip(s) ==
    IF s # <<>> /\ s[Len(s)] \in Whitespace
    THEN rstrip(SubSeq(s, 1, Len(s) - 1))
    ELSE s

\* str.strip()
strip(s) == rstrip(lstrip(s))

Digits == << "0", "1", "2", "3", "4", "5", "6", "7", "8", "9" >>

RECURSIVE NatToText(_)
NatToText(n) ==
    IF n < 10
    THEN << Digits[n + 1] >>
    ELSE NatToText(n \div 10) \o << Digits[(n % 10) + 1] >>

\* the f-string conversion {rc} of an int
str(n) == IF n < 0 THEN << "-" >> \o NatToText(0 - n) ELSE NatToText(n)

\* sep.join(parts)
RECURSIVE join(_, _)
join(sep, parts) ==
    IF parts = <<>> THEN <<>>
    ELSE IF Len(parts) = 1 THEN parts[1]
    ELSE parts[1] \o sep \o join(sep, Tail(parts))

\* one logging record (the timestamp of the format string is left out)
LogRecord(level, msg) == [ level |-> level, msg |-> msg ]

(***************************************************************************)
(* The state.                                                              *)
(***************************************************************************)
VARIABLES
    url_var,            \* self.url_var: text of the URL entry
    format_var,         \* self.format_var: text of the format combobox
    download_dir_var,   \* self.download_dir_var: text of the folder entry
    download_button,    \* state of self.download_button: "normal" | "disabled"
    output_text,        \* contents of self.output_text
    log,                \* records written to debug_log.txt
    threads,            \* the download_video threads started so far
    pending,            \* click events queued for the event loop
    clicks              \* clicks and direct calls made so far

vars == << url_var, format_var, download_dir_var, download_button,
           output_text, log, threads, pending, clicks >>

\* the locals of one download_video thread
NewThread(url, fmt, folder) ==
    [ pc      |-> "build",
      url     |-> url,
      fmt     |-> fmt,
      folder  |-> folder,
      command |-> <<>>,
      process |-> "unbound",
      lines   |-> <<>>,        \* lines read from process.stdout so far
      rc      |-> <<>>,        \* <<>>: not assigned; <<n>>: rc = n
      e       |-> <<>> ]       \* <<>>: nothing raised; <<t>>: str(e) = t

\* the threads that have not returned yet
InFlight == { t \in 1..Len(threads) : threads[t].pc # "done" }

\* the log as main() and __init__ leave it
StartupLog ==
    << LogRecord("INFO", <<"Launching Towel YT Downloader application">>),
       LogRecord("INFO", <<"Initializing Towel YT Downloader GUI">>) >>

Init ==
    /\ url_var = <<>>
    /\ format_var = <<"best">>
    /\ download_dir_var = <<>>
    /\ download_button = "normal"
    /\ output_text = <<>>
    /\ log = StartupLog
    /\ threads = <<>>
    /\ pending = 0
    /\ clicks = 0

(***************************************************************************)
(* The UI thread.                                                          *)
(***************************************************************************)
\* the user edits the URL entry
TypeUrl(u) ==
    /\ u # url_var
    /\ url_var' = u
    /\ UNCHANGED << format_var, download_dir_var, download_button,
                    output_text, log, threads, pending, clicks >>

\* choose_folder(): the Browse... button
choose_folder(folder) ==
    /\ folder # <<>>
    /\ folder # download_dir_var
    /\ log' = Append(log, LogRecord("DEBUG", <<"User selected folder: ">> \o folder))
    /\ download_dir_var' = folder
    /\ UNCHANGED << url_var, format_var, download_button, output_text,
                    threads, pending, clicks >>

NoUrlMessage == << "Please enter a valid URL.", "\n" >>

StartingMessage(url, fmt, folder) ==
    <<"Starting download. URL=">> \o url \o <<", Format=">> \o fmt
        \o <<", Folder=">> \o (IF folder # <<>> THEN folder ELSE <<"Default">>)

\* start_download() without the strip() of the URL
start_downloadNoStrip ==
    LET url == url_var
        fmt == strip(format_var)
        download_folder == strip(download_dir_var)
    IN  IF url = <<>>
        THEN /\ log' = Append(log, LogRecord("WARNING", <<"No URL provided by the user.">>))
             /\ output_text' = output_text \o NoUrlMessage
             /\ UNCHANGED << download_button, threads >>
        ELSE /\ download_button' = "disabled"
             /\ output_text' = <<>>
             /\ log' = Append(log, LogRecord("INFO", StartingMessage(url, fmt, download_folder)))
             /\ threads' = Append(threads, NewThread(url, fmt, download_folder))

\* start_download() that leaves the button enabled
start_downloadNoDisable ==
    LET url == strip(url_var)
        fmt == strip(format_var)
        download_folder == strip(download_dir_var)
    IN  IF url = <<>>
        THEN /\ log' = Append(log, LogRecord("WARNING", <<"No URL provided by the user.">>))
             /\ output_text' = output_text \o NoUrlMessage
             /\ UNCHANGED << download_button, threads >>
        ELSE /\ UNCHANGED download_button
             /\ output_text' = <<>>
             /\ log' = Append(log, LogRecord("INFO", StartingMessage(url, fmt, download_folder)))
             /\ threads' = Append(threads, NewThread(url, fmt, download_folder))

\* start_download() that does not clear the output
start_downloadNoClear ==
    LET url == strip(url_var)
        fmt == strip(format_var)
        download_folder == strip(download_dir_var)
    IN  IF url = <<>>
        THEN /\ log' = Append(log, LogRecord("WARNING", <<"No URL provided by the user.">>))
             /\ output_text' = output_text \o NoUrlMessage
             /\ UNCHANGED << download_button, threads >>
        ELSE /\ download_button' = "disabled"
             /\ UNCHANGED output_text
             /\ log' = Append(log, LogRecord("INFO", StartingMessage(url, fmt, download_folder)))
             /\ threads' = Append(threads, NewThread(url, fmt, download_folder))

\* start_download() that returns at once while the button is disabled
start_downloadGuarded ==
    LET url == strip(url_var)
        fmt == strip(format_var)
        download_folder == strip(download_dir_var)
    IN  IF download_button = "disabled"
        THEN UNCHANGED << download_button, output_text, log, threads >>
        ELSE IF url = <<>>
        THEN /\ log' = Append(log, LogRecord("WARNING", <<"No URL provided by the user.">>))
             /\ output_text' = output_text \o NoUrlMessage
             /\ UNCHANGED << download_button, threads >>
        ELSE /\ download_button' = "disabled"
             /\ output_text' = <<>>
             /\ log' = Append(log, LogRecord("INFO", StartingMessage(url, fmt, download_folder)))
             /\ threads' = Append(threads, NewThread(url, fmt, download_folder))

\* start_download(): one callback of the event loop, so one step
start_download ==
    LET url == strip(url_var)
        fmt == strip(format_var)
        download_folder == strip(download_dir_var)
    IN  IF url = <<>>
        THEN /\ log' = Append(log, LogRecord("WARNING", <<"No URL provided by the user.">>))
             /\ output_text' = output_text \o NoUrlMessage
             /\ UNCHANGED << download_button, threads >>
        ELSE /\ download_button' = "disabled"
             /\ output_text' = <<>>
             /\ log' = Append(log, LogRecord("INFO", StartingMessage(url, fmt, download_folder)))
             /\ threads' = Append(threads, NewThread(url, fmt, download_folder))

\* the user clicks on the Download button: the event is queued
Click ==
    /\ clicks < MaxClicks
    /\ clicks' = clicks + 1
    /\ pending' = pending + 1
    /\ UNCHANGED << url_var, format_var, download_dir_var, download_button,
                    output_text, log, threads >>

\* the event loop delivers a queued click to the button, which calls its
\* command unless it is disabled
Dispatch ==
    /\ pending > 0
    /\ pending' = pending - 1
    /\ IF download_button = "normal"
       THEN start_download
       ELSE UNCHANGED << download_button, output_text, log, threads >>
    /\ UNCHANGED << url_var, format_var, download_dir_var, clicks >>

\* start_download() called directly, whatever the state of the button
Invoke ==
    /\ clicks < MaxClicks
    /\ clicks' = clicks + 1
    /\ start_download
    /\ UNCHANGED << url_var, format_var, download_dir_var, pending >>

(***************************************************************************)
(* download_video(url, fmt, folder), one step per statement that another   *)
(* thread can observe.                                                     *)
(***************************************************************************)
\* the argument vector with the --paths pair added whatever the folder
BuildCommandAlwaysPaths(url, fmt, folder) ==
    Append(<< <<"yt-dlp">>, <<"-f">>, fmt >> \o << <<"--paths">>, folder >>, url)

\* the argument vector
BuildCommand(url, fmt, folder) ==
    LET command == << <<"yt-dlp">>, <<"-f">>, fmt >>
        withPaths == IF folder # <<>>
                     THEN command \o << <<"--paths">>, folder >>
                     ELSE command
    IN  Append(withPaths, url)

Build(t) ==
    /\ threads[t].pc = "build"
    /\ LET command == BuildCommand(threads[t].url, threads[t].fmt, threads[t].folder)
       IN  /\ threads' = [threads EXCEPT ![t].command = command, ![t].pc = "spawn"]
           /\ log' = Append(log, LogRecord("DEBUG",
                        <<"Executing command: ">> \o join(<<" ">>, command)))
    /\ UNCHANGED << url_var, format_var, download_dir_var, download_button,
                    output_text, pending, clicks >>

\* Popen returns and the button is enabled as soon as the process runs
PopenOkEnablesButton(t) ==
    /\ threads[t].pc = "spawn"
    /\ threads' = [threads EXCEPT ![t].process = "running", ![t].pc = "stream"]
    /\ download_button' = "normal"
    /\ UNCHANGED << url_var, format_var, download_dir_var,
                    output_text, log, pending, clicks >>

\* subprocess.Popen(...) returns
PopenOk(t) ==
    /\ threads[t].pc = "spawn"
    /\ threads' = [threads EXCEPT ![t].process = "running", ![t].pc = "stream"]
    /\ UNCHANGED << url_var, format_var, download_dir_var, download_button,
                    output_text, log, pending, clicks >>

\* subprocess.Popen(...) raises
PopenRaises(t, err) ==
    /\ threads[t].pc = "spawn"
    /\ threads' = [threads EXCEPT ![t].e = <<err>>, ![t].pc = "except"]
    /\ UNCHANGED << url_var, format_var, download_dir_var, download_button,
                    output_text, log, pending, clicks >>

\* the iteration inserting the line at the start of the output ("1.0")
ReadLinePrepends(t, line) ==
    /\ threads[t].pc = "stream"
    /\ Len(threads[t].lines) < MaxLines
    /\ output_text' = line \o output_text
    /\ log' = Append(log, LogRecord("DEBUG", strip(line)))
    /\ threads' = [threads EXCEPT ![t].lines = Append(@, line)]
    /\ UNCHANGED << url_var, format_var, download_dir_var, download_button,
                    pending, clicks >>

\* one iteration of `for line in process.stdout`
ReadLine(t, line) ==
    /\ threads[t].pc = "stream"
    /\ Len(threads[t].lines) < MaxLines
    /\ output_text' = output_text \o line
    /\ log' = Append(log, LogRecord("DEBUG", strip(line)))
    /\ threads' = [threads EXCEPT ![t].lines = Append(@, line)]
    /\ UNCHANGED << url_var, format_var, download_dir_var, download_button,
                    pending, clicks >>

\* the process closes its output: the loop ends
ReadEOF(t) ==
    /\ threads[t].pc = "stream"
    /\ threads' = [threads EXCEPT ![t].process = "closed", ![t].pc = "wait"]
    /\ UNCHANGED << url_var, format_var, download_dir_var, download_button,
                    output_text, log, pending, clicks >>

\* reading the next line raises
ReadRaises(t, err) ==
    /\ threads[t].pc = "stream"
    /\ threads' = [threads EXCEPT ![t].e = <<err>>, ![t].pc = "except"]
    /\ UNCHANGED << url_var, format_var, download_dir_var, download_button,
                    output_text, log, pending, clicks >>

\* the wait raising on a non-zero exit code (check=True style)
WaitChecksCode(t, code) ==
    /\ threads[t].pc = "wait"
    /\ IF code = 0
       THEN /\ threads' = [threads EXCEPT ![t].process = "reaped", ![t].rc = <<code>>,
                                          ![t].pc = "finally"]
            /\ log' = Append(log, LogRecord("INFO",
                         <<"Download completed with exit code ">> \o str(code)))
       ELSE /\ threads' = [threads EXCEPT ![t].process = "reaped",
                                          ![t].e = << <<"exit code ">> \o str(code) >>,
                                          ![t].pc = "except"]
            /\ UNCHANGED log
    /\ UNCHANGED << url_var, format_var, download_dir_var, download_button,
                    output_text, pending, clicks >>

\* process.wait(); rc = process.returncode; logging.info(...)
Wait(t, code) ==
    /\ threads[t].pc = "wait"
    /\ threads' = [threads EXCEPT ![t].process = "reaped", ![t].rc = <<code>>,
                                  ![t].pc = "finally"]
    /\ log' = Append(log, LogRecord("INFO",
                 <<"Download completed with exit code ">> \o str(code)))
    /\ UNCHANGED << url_var, format_var, download_dir_var, download_button,
                    output_text, pending, clicks >>

ErrMsg(e) == <<"Exception during download: ">> \o e

\* the handler writing the error to the log only
ExceptLogsOnly(t) ==
    /\ threads[t].pc = "except"
    /\ log' = Append(log, LogRecord("ERROR", ErrMsg(threads[t].e[1])))
    /\ threads' = [threads EXCEPT ![t].pc = "finally"]
    /\ UNCHANGED << url_var, format_var, download_dir_var, download_button,
                    output_text, pending, clicks >>

\* except Exception as e
Except(t) ==
    /\ threads[t].pc = "except"
    /\ LET err_msg == ErrMsg(threads[t].e[1])
       IN  /\ log' = Append(log, LogRecord("ERROR", err_msg))
           /\ output_text' = output_text \o err_msg \o <<"\n">>
    /\ threads' = [threads EXCEPT ![t].pc = "finally"]
    /\ UNCHANGED << url_var, format_var, download_dir_var, download_button,
                    pending, clicks >>

\* the button enabled in an else clause, after a download that raised nothing
FinallyOnSuccessOnly(t) ==
    /\ threads[t].pc = "finally"
    /\ download_button' = IF threads[t].e = <<>> THEN "normal" ELSE download_button
    /\ threads' = [threads EXCEPT ![t].pc = "done"]
    /\ UNCHANGED << url_var, format_var, download_dir_var, output_text, log,
                    pending, clicks >>

\* finally: the button is enabled again and the thread returns
Finally(t) ==
    /\ threads[t].pc = "finally"
    /\ download_button' = "normal"
    /\ threads' = [threads EXCEPT ![t].pc = "done"]
    /\ UNCHANGED << url_var, format_var, download_dir_var, output_text, log,
                    pending, clicks >>

Worker ==
    \E t \in 1..Len(threads) :
        \/ Build(t)
        \/ PopenOk(t)
        \/ \E err \in SpawnErrors : PopenRaises(t, err)
        \/ \E line \in LineValues : ReadLine(t, line)
        \/ ReadEOF(t)
        \/ \E err \in StreamErrors : ReadRaises(t, err)
        \/ \E code \in ExitCodes : Wait(t, code)
        \/ Except(t)
        \/ Finally(t)

(***************************************************************************)
(* Spec: downloads are started by clicks on the button only.               *)
(***************************************************************************)
Next ==
    \/ \E u \in UrlInputs : TypeUrl(u)
    \/ Click
    \/ Dispatch
    \/ Worker

Spec == Init /\ [][Next]_vars

\* the worker threads are scheduled, and a process emits at most MaxLines
\* lines before it closes its output
FairSpec == Spec /\ WF_vars(Worker)

(***************************************************************************)
(* MisuseSpec: start_download() is also called directly by the program.    *)
(***************************************************************************)
MisuseNext ==
    \/ \E u \in UrlInputs : TypeUrl(u)
    \/ Invoke
    \/ Worker

MisuseSpec == Init /\ [][MisuseNext]_vars

(***************************************************************************)
(* BuilderSpec: the first click, delivered with the fields filled in from  *)
(* BuilderUrls, FormatValues and BuilderFolders, and the worker it starts. *)
(***************************************************************************)
BuilderInit ==
    \E u \in BuilderUrls, f \in FormatValues, d \in BuilderFolders :
        /\ url_var = u
        /\ format_var = f
        /\ download_dir_var = d
        /\ pending = 0
        /\ clicks = 1
        /\ IF strip(u) = <<>>
           THEN /\ download_button = "normal"
                /\ output_text = NoUrlMessage
                /\ log = Append(StartupLog,
                            LogRecord("WARNING", <<"No URL provided by the user.">>))
                /\ threads = <<>>
           ELSE /\ download_button = "disabled"
                /\ output_text = <<>>
                /\ log = Append(StartupLog,
                            LogRecord("INFO", StartingMessage(strip(u), strip(f), strip(d))))
                /\ threads = << NewThread(strip(u), strip(f), strip(d)) >>

BuilderNext ==
    \/ \E folder \in FolderChoices : choose_folder(folder)
    \/ Worker

BuilderSpec == BuilderInit /\ [][BuilderNext]_vars

(***************************************************************************)
(* Helpers of the properties.                                              *)
(***************************************************************************)
\* the texts of a sequence, one after the other
RECURSIVE Concat(_)
Concat(texts) == IF texts = <<>> THEN <<>> ELSE Head(texts) \o Concat(Tail(texts))

ThreadIds == 1..Len(threads)

IsStartingRecord(r) ==
    r.level = "INFO" /\ Head(r.msg) = "Starting download. URL="

\* the index of the log record of the latest accepted start_download
LastStart ==
    LET starts == { i \in 1..Len(log) : IsStartingRecord(log[i]) }
    IN  CHOOSE i \in starts : \A j \in starts : j <= i

\* the ERROR records written since the latest accepted start_download
ErrorsSinceStart ==
    { i \in (LastStart + 1)..Len(log) : log[i].level = "ERROR" }

ErrLine(t) == ErrMsg(threads[t].e[1]) \o <<"\n">>

\* thread t leaves program point p in this step
Leaves(t, p) == threads[t].pc = p /\ threads'[t].pc # p

(***************************************************************************)
(* C1 (BuilderSpec).  The command download_video builds from a non-empty   *)
(* URL u, a format f and a folder d is exactly [yt-dlp, -f, f, u] when d   *)
(* is empty and [yt-dlp, -f, f, --paths, d, u] otherwise: it begins with   *)
(* the tool name and the format pair, ends with the URL, and carries the   *)
(* --paths flag, followed by d, between them iff d is not empty.           *)
(***************************************************************************)
C1_CommandIsExact ==
    \A t \in ThreadIds :
        threads[t].command # <<>> =>
            LET c == threads[t].command
                u == threads[t].url
                f == threads[t].fmt
                d == threads[t].folder
            IN  /\ u # <<>>
                /\ d = <<>> => c = << <<"yt-dlp">>, <<"-f">>, f, u >>
                /\ d # <<>> => c = << <<"yt-dlp">>, <<"-f">>, f, <<"--paths">>, d, u >>
                /\ SubSeq(c, 1, 3) = << <<"yt-dlp">>, <<"-f">>, f >>
                /\ c[Len(c)] = u
                /\ d # <<>> <=>
                     \E i \in 4..(Len(c) - 2) : c[i] = <<"--paths">> /\ c[i + 1] = d

\* a command built for a folder typed with surrounding blanks
C1_Witness ==
    \E t \in ThreadIds :
        /\ threads[t].command # <<>>
        /\ download_dir_var = <<" ", "d", " ">>
        /\ threads[t].folder = <<"d">>
        /\ Len(threads[t].command) = 6

(***************************************************************************)
(* C2 (Spec).  A click delivered while the URL field is empty or holds     *)
(* only whitespace starts no worker thread (so no process), appends the    *)
(* message "Please enter a valid URL." to the output and leaves the button *)
(* enabled.                                                                *)
(***************************************************************************)
C2_EmptyUrlRejected ==
    [][ (pending' = pending - 1 /\ download_button = "normal"
            /\ strip(url_var) = <<>>)
        => /\ threads' = threads
           /\ output_text' = output_text \o << "Please enter a valid URL.", "\n" >>
           /\ download_button' = "normal" ]_vars

\* a whitespace-only URL has been rejected
C2_Witness ==
    /\ url_var = <<" ">>
    /\ clicks = 1
    /\ pending = 0
    /\ threads = <<>>
    /\ output_text = << "Please enter a valid URL.", "\n" >>

(***************************************************************************)
(* C3 (Spec).  While a download streams and after its process has closed   *)
(* its output, the output holds exactly the lines the worker has read,     *)
(* each once, verbatim and in arrival order, and the button is still       *)
(* disabled: it is enabled only after the last line has been forwarded.    *)
(***************************************************************************)
C3_LinesForwardedInOrder ==
    \A t \in ThreadIds :
        (threads[t].pc \in {"stream", "wait", "finally"} /\ threads[t].e = <<>>)
            => /\ output_text = Concat(threads[t].lines)
               /\ download_button = "disabled"

\* two different lines have been forwarded and the process has exited
C3_Witness ==
    \E t \in ThreadIds :
        /\ threads[t].pc = "finally"
        /\ threads[t].e = <<>>
        /\ Len(threads[t].lines) = 2
        /\ threads[t].lines[1] # threads[t].lines[2]

(***************************************************************************)
(* C4 (Spec).  When Popen raises, the worker reaches its finally clause    *)
(* with no output line read, the output holding exactly the one line       *)
(* "Exception during download: ..." and the log exactly one ERROR record   *)
(* of this download; the exception is caught, and the next step enables    *)
(* the button.                                                             *)
(***************************************************************************)
C4_SpawnFailureState ==
    \A t \in ThreadIds :
        (threads[t].pc = "finally" /\ threads[t].process = "unbound")
            => /\ threads[t].e # <<>>
               /\ threads[t].lines = <<>>
               /\ output_text = ErrLine(t)
               /\ Cardinality(ErrorsSinceStart) = 1
               /\ log[Len(log)] = LogRecord("ERROR", ErrMsg(threads[t].e[1]))
               /\ download_button = "disabled"
               /\ ENABLED Finally(t)

C4_SpawnFailure ==
    /\ []C4_SpawnFailureState
    /\ [][ \A t \in ThreadIds :
             (Leaves(t, "finally") /\ threads[t].process = "unbound")
                => download_button' = "normal" /\ threads'[t].pc = "done" ]_vars

\* the worker of a failed spawn has returned and the button is enabled
C4_Witness ==
    \E t \in ThreadIds :
        /\ threads[t].pc = "done"
        /\ threads[t].process = "unbound"
        /\ output_text = ErrLine(t)
        /\ download_button = "normal"

(***************************************************************************)
(* C5 (FairSpec).  Whenever the button is disabled it is eventually        *)
(* enabled again, on every path of the worker; and a worker only moves     *)
(* build -> spawn -> stream -> wait -> finally -> done, or from spawn or   *)
(* stream through except to finally.                                       *)
(***************************************************************************)
C5_PcSteps ==
    { <<"build", "spawn">>, <<"spawn", "stream">>, <<"spawn", "except">>,
      <<"stream", "wait">>, <<"stream", "except">>, <<"wait", "finally">>,
      <<"except", "finally">>, <<"finally", "done">> }

C5_ButtonReenabled ==
    /\ (download_button = "disabled") ~> (download_button = "normal")
    /\ [][ \A t \in ThreadIds :
              \/ threads'[t].pc = threads[t].pc
              \/ << threads[t].pc, threads'[t].pc >> \in C5_PcSteps ]_vars

\* a download that failed while streaming has given the button back
C5_Witness ==
    \E t \in ThreadIds :
        /\ threads[t].pc = "done"
        /\ threads[t].process = "running"
        /\ threads[t].e # <<>>
        /\ threads[t].lines # <<>>
        /\ download_button = "normal"

(***************************************************************************)
(* C6 (Spec).  The exit code decides nothing: the step that waits for the  *)
(* process leads, for every code, to the finally clause, changes neither   *)
(* the output nor the button, raises nothing, and appends the one record   *)
(* "Download completed with exit code N"; the code is kept only in rc; and *)
(* the finally clause does the same whatever rc is.                        *)
(***************************************************************************)
C6_ExitCodeNotInspected ==
    [][ \A t \in ThreadIds :
          /\ Leaves(t, "wait") =>
               /\ [threads' EXCEPT ![t].rc = <<>>]
                     = [threads EXCEPT ![t].pc = "finally", ![t].process = "reaped"]
               /\ threads'[t].rc # <<>>
               /\ output_text' = output_text
               /\ download_button' = download_button
               /\ log' = Append(log, LogRecord("INFO",
                            <<"Download completed with exit code ">>
                                \o str(threads'[t].rc[1])))
          /\ (Leaves(t, "finally") /\ threads[t].rc # <<>>) =>
               /\ threads' = [threads EXCEPT ![t].pc = "done"]
               /\ output_text' = output_text
               /\ log' = log
               /\ download_button' = "normal" ]_vars

\* a download that exited with a non-zero code: no error line, no ERROR record
C6_Witness ==
    \E t \in ThreadIds :
        /\ threads[t].pc = "done"
        /\ threads[t].rc = << 1 >>
        /\ threads[t].lines # <<>>
        /\ output_text = Concat(threads[t].lines)
        /\ ErrorsSinceStart = {}
        /\ download_button = "normal"

(***************************************************************************)
(* C7 (Spec).  With downloads started by clicks only, at most one worker   *)
(* is in flight in every reachable state, and the button is disabled       *)
(* whenever one is.                                                        *)
(***************************************************************************)
C7_OneDownloadInFlight ==
    /\ Cardinality(InFlight) <= 1
    /\ InFlight # {} => download_button = "disabled"

\* the second download is in flight after the first has returned
C7_Witness ==
    /\ Len(threads) = 2
    /\ threads[1].pc = "done"
    /\ threads[2].pc = "stream"

(***************************************************************************)
(* C8 (Spec), as stated: the second click of a double click, delivered     *)
(* before the worker of the first has taken a step, starts a second        *)
(* worker.                                                                 *)
(***************************************************************************)
C8_DoubleClickStartsTwo ==
    [][ (/\ pending' = pending - 1
         /\ clicks = 2
         /\ Len(threads) = 1
         /\ threads[1].pc = "build"
         /\ strip(url_var) # <<>>)
        => Cardinality(InFlight') = 2 ]_vars

(***************************************************************************)
(* C8 (Spec), amended: a click delivered while a download is in flight     *)
(* finds the button disabled and is discarded: it starts no worker and     *)
(* changes neither the output, the log nor the button.                     *)
(***************************************************************************)
C8_SecondClickDiscarded ==
    [][ (pending' = pending - 1 /\ InFlight # {})
        => /\ threads' = threads
           /\ output_text' = output_text
           /\ log' = log
           /\ download_button' = download_button ]_vars

\* both clicks of a double click have been delivered: one worker, not yet run
C8_Witness ==
    /\ clicks = 2
    /\ pending = 0
    /\ Len(threads) = 1
    /\ threads[1].pc = "build"
    /\ Len(log) = Len(StartupLog) + 1

(***************************************************************************)
(* C9 (MisuseSpec).  start_download() called directly with a non-empty URL *)
(* while a download is in flight checks nothing: it clears the output and  *)
(* starts one more worker next to the running ones; and a worker that      *)
(* finishes enables the button even while another is in flight.            *)
(***************************************************************************)
C9_NoReentrancyGuard ==
    [][ /\ (clicks' = clicks + 1 /\ InFlight # {} /\ strip(url_var) # <<>>)
           => /\ output_text' = <<>>
              /\ Len(threads') = Len(threads) + 1
              /\ InFlight' = InFlight \cup { Len(threads') }
              /\ download_button' = "disabled"
        /\ \A t \in ThreadIds :
             Leaves(t, "finally")
                => download_button' = "normal" /\ InFlight' = InFlight \ {t} ]_vars

\* the first worker has returned and enabled the button while the second,
\* started by a direct call, still streams
C9_Witness ==
    /\ Len(threads) = 2
    /\ threads[1].pc = "done"
    /\ threads[2].pc = "stream"
    /\ threads[2].lines # <<>>
    /\ threads[1].lines # <<>>
    /\ download_button = "normal"

(***************************************************************************)
(* C10 (Spec).  The output is cleared by every accepted click before the   *)
(* worker starts, and by nothing else, so that all along a download, and   *)
(* when it reaches its finally clause, the output holds exactly the lines  *)
(* this download forwarded, followed by its error line if it failed, and   *)
(* nothing of earlier downloads or rejected clicks.                        *)
(***************************************************************************)
C10_OutputOfCurrentDownload ==
    \A t \in InFlight :
        output_text =
            Concat(threads[t].lines)
                \o (IF threads[t].pc = "finally" /\ threads[t].e # <<>>
                    THEN ErrLine(t)
                    ELSE <<>>)

\* a second download ends with less output than the first one left
C10_Witness ==
    /\ Len(threads) = 2
    /\ threads[1].lines # <<>>
    /\ threads[2].pc = "finally"
    /\ threads[2].lines = <<>>
    /\ threads[2].e = <<>>
    /\ output_text = <<>>

=============================================================================
